---------------------------- MODULE Spec2Model ----------------------------
(***************************************************************************)
(* Model of Catatomik/Dijkstra: the WeightedGraph class of                 *)
(* src/utils/Graph.ts and the Dijkstra / tracePath functions of            *)
(* src/main.ts.                                                            *)
(*                                                                         *)
(* One WeightedGraph object is built by its mutators from the empty graph; *)
(* a search over it runs the relaxation loop of Dijkstra step by step.     *)
(***************************************************************************)
EXTENDS Integers, Sequences, FiniteSets

(***************************************************************************)
(* Bounds of the model.                                                    *)
(***************************************************************************)
\* Largest size of the modelled graph: the number of its arcs plus the sum of
\* the weights it stores.
MaxSize == 4
\* Largest value of the option maxCumulWeight.
MaxCumul == 1

(***************************************************************************)
(* JavaScript values.  A node is a string or a number (Graph.ts:1).  A     *)
(* value is a record: kind says which JavaScript type it has, num holds a  *)
(* number, str holds a string as the sequence of its characters.           *)
(***************************************************************************)
Num(i) == [kind |-> "number", num |-> i, str |-> <<>>]
Str(cs) == [kind |-> "string", num |-> 0, str |-> cs]
nullNode == [kind |-> "symbol", num |-> 0, str |-> <<"n", "u", "l", "l", "N", "o", "d", "e">>]
undefined == [kind |-> "undefined", num |-> 0, str |-> <<>>]

\* The node values the callers of the model use: the numbers 0 and 1 and
\* the string "1".
NodeVals == {Num(0), Num(1), Str(<<"1">>)}

\* Infinity, as a number above every cumulative weight the model reaches.
Infinity == 1000000
\* NaN, the sum of a number and undefined; no comparison with it holds.
NaN == -1
\* An omitted weight argument.
NoWeight == -2

Digits == <<"0", "1", "2", "3", "4", "5", "6", "7", "8", "9">>

\* Number.prototype.toString of a non-negative integer.
RECURSIVE NumberToString(_)
NumberToString(i) ==
  IF i < 10 THEN <<Digits[i + 1]>>
  ELSE NumberToString(i \div 10) \o <<Digits[(i % 10) + 1]>>

\* `${n}`: the string a template literal makes of a node.
ToString(n) == IF n.kind = "number" THEN NumberToString(n.num) ELSE n.str

DigitValue(c) == (CHOOSE d \in 1..10 : Digits[d] = c) - 1

\* ToNumber of a string: 0 for the empty string, the value of a decimal
\* numeral, NaN otherwise.
RECURSIVE StringToNumber(_)
StringToNumber(cs) ==
  IF cs = <<>> THEN 0
  ELSE IF \E k \in 1..Len(cs) : \A d \in 1..10 : Digits[d] # cs[k] THEN NaN
  ELSE IF Len(cs) = 1 THEN DigitValue(cs[1])
  ELSE 10 * StringToNumber(SubSeq(cs, 1, Len(cs) - 1)) + DigitValue(cs[Len(cs)])

\* a === b, and the SameValueZero of Map and Set keys.
StrictEquals(a, b) == a = b

\* a == b, for strings and numbers: operands of different types are compared
\* as numbers.
LooseEquals(a, b) ==
  IF a.kind = b.kind THEN a = b
  ELSE IF a.kind = "number" /\ b.kind = "string"
         THEN StringToNumber(b.str) # NaN /\ a.num = StringToNumber(b.str)
  ELSE IF a.kind = "string" /\ b.kind = "number"
         THEN StringToNumber(a.str) # NaN /\ b.num = StringToNumber(a.str)
  ELSE FALSE

\* ToBoolean of a node or of undefined.
ToBoolean(a) ==
  IF a.kind = "number" THEN a.num # 0
  ELSE IF a.kind = "string" THEN a.str # <<>>
  ELSE a.kind # "undefined"

(***************************************************************************)
(* Map and Set.  A Map is a function on its keys; a Set is the sequence of *)
(* its members in insertion order.                                         *)
(***************************************************************************)
EmptyMap == [k \in {} |-> 0]
MapHas(m, k) == k \in DOMAIN m
MapSet(m, k, v) == [x \in (DOMAIN m) \cup {k} |-> IF x = k THEN v ELSE m[x]]
MapDelete(m, k) == [x \in (DOMAIN m) \ {k} |-> m[x]]

SetHas(q, e) == \E i \in 1..Len(q) : q[i] = e
SetAdd(q, e) == IF SetHas(q, e) THEN q ELSE Append(q, e)
SetDelete(q, e) == SelectSeq(q, LAMBDA x : x # e)

(***************************************************************************)
(* Graph (Graph.ts:8-179).  A graph value G is [adj, weights].             *)
(***************************************************************************)
VARIABLES
  adj,      \* Graph.adj: Map<N, Set<N>>
  weights,  \* WeightedGraph.weights: Map<weightKey, number>
  ret,      \* what the last call returned or threw
  pc,       \* where the search in flight stands
  s,        \* Dijkstra: source
  t,        \* Dijkstra: target, undefined in a full search
  O,        \* Dijkstra: options
  dist,     \* Dijkstra: Map<N, number>
  prev,     \* Dijkstra: Map<N, nodeOrNullNode>
  Q,        \* Dijkstra: the heap, a set of INodes [id, key, value]
  QMapping, \* Dijkstra: Map<N, INode | null>, an INode named by its id
  inserted, \* Dijkstra: how many INodes Q.insert has made
  min       \* Dijkstra: the INode extracted last

vars == <<adj, weights, ret, pc, s, t, O, dist, prev, Q, QMapping, inserted, min>>
graphVars == <<adj, weights>>
searchVars == <<s, t, O, dist, prev, Q, QMapping, inserted, min>>

addNode(a, n) == IF ~MapHas(a, n) THEN MapSet(a, n, <<>>) ELSE a

\* An addArc that registers the first endpoint only.
GraphAddArcOneNode(a, n1, n2) ==
  LET a2 == addNode(a, n1)
  IN  IF MapHas(a2, n1) THEN MapSet(a2, n1, SetAdd(a2[n1], n2)) ELSE a2

GraphAddArc(a, n1, n2) ==
  LET a2 == addNode(addNode(a, n1), n2)
  IN  IF MapHas(a2, n1) THEN MapSet(a2, n1, SetAdd(a2[n1], n2)) ELSE a2

GraphRemoveArc(a, n1, n2) ==
  IF MapHas(a, n1) THEN MapSet(a, n1, SetDelete(a[n1], n2)) ELSE a

arc(a, n1, n2) == MapHas(a, n1) /\ SetHas(a[n1], n2)

nodes(a) == DOMAIN a

neighbors(a, n) == IF MapHas(a, n) THEN a[n] ELSE <<>>

(***************************************************************************)
(* WeightedGraph (Graph.ts:181-246).                                       *)
(***************************************************************************)
weightKey(n1, n2) == ToString(n1) \o <<"-">> \o ToString(n2)

addArc(G, n1, n2, w) ==
  LET w0 == IF w = NoWeight THEN 0 ELSE w
  IN  [adj |-> GraphAddArc(G.adj, n1, n2),
       weights |-> MapSet(G.weights, weightKey(n1, n2), w0)]

removeArc(G, n1, n2) ==
  [adj |-> GraphRemoveArc(G.adj, n1, n2),
   weights |-> MapDelete(G.weights, weightKey(n1, n2))]

\* An addEdge that passes its weight on to the first arc only.
addEdgeOneWeight(G, n1, n2, w) == addArc(addArc(G, n1, n2, w), n2, n1, NoWeight)

addEdge(G, n1, n2, w) == addArc(addArc(G, n1, n2, w), n2, n1, w)

removeEdge(G, n1, n2) == removeArc(removeArc(G, n1, n2), n2, n1)

\* The outcomes of a call.
This == [kind |-> "this"]
Throw(n1, n2) == [kind |-> "throw", message |-> "Invalid nodes", n1 |-> n1, n2 |-> n2]
Value(n1, n2, x) == [kind |-> "value", value |-> x, n1 |-> n1, n2 |-> n2]

\* weights.get(key): the number stored, NaN standing for undefined, which
\* is all the sum of Dijkstra and undefined can make of it.
weightsGet(G, n1, n2) ==
  IF MapHas(G.weights, weightKey(n1, n2)) THEN G.weights[weightKey(n1, n2)] ELSE NaN

\* A weight that answers for a pair that is no arc as it does for an arc.
weightUnchecked(G, n1, n2) == Value(n1, n2, weightsGet(G, n1, n2))

\* Graph.ts:241-245
weight(G, n1, n2) ==
  IF ~arc(G.adj, n1, n2) THEN Throw(n1, n2)
  ELSE Value(n1, n2, weightsGet(G, n1, n2))

(***************************************************************************)
(* The graph object and the calls on it.                                   *)
(***************************************************************************)
TheGraph == [adj |-> adj, weights |-> weights]

\* The number of arcs: the sizes of the Sets of adj, added up.
NumArcs(a) == Cardinality(UNION {{<<n, i>> : i \in 1..Len(a[n])} : n \in DOMAIN a})

\* The sum of the weights stored.
SumWeights(w) == Cardinality(UNION {{<<k, i>> : i \in 1..w[k]} : k \in DOMAIN w})

GraphSize(G) == NumArcs(G.adj) + SumWeights(G.weights)

WeightArgs == (0..(MaxSize - 1)) \cup {NoWeight}

Idle == pc = "idle"

\* A mutator has made the graph G and returned this.
SetGraph(G) ==
  \E g \in {G} :
    /\ GraphSize(g) <= MaxSize
    /\ adj' = g.adj
    /\ weights' = g.weights
    /\ ret' = This
    /\ UNCHANGED <<pc, searchVars>>

CallAddNode(n) == SetGraph([adj |-> addNode(adj, n), weights |-> weights])
CallAddArc(n1, n2, w) == SetGraph(addArc(TheGraph, n1, n2, w))
CallRemoveArc(n1, n2) == SetGraph(removeArc(TheGraph, n1, n2))
CallAddEdge(n1, n2, w) == SetGraph(addEdge(TheGraph, n1, n2, w))
CallRemoveEdge(n1, n2) == SetGraph(removeEdge(TheGraph, n1, n2))

\* A call of weight: the caller holds its outcome (pc = "returned") until it
\* goes on.
CallWeight(n1, n2) ==
  /\ ret' = weight(TheGraph, n1, n2)
  /\ pc' = "returned"
  /\ UNCHANGED <<graphVars, searchVars>>

\* The calls a caller makes on the graph while no search runs.
AddNode == Idle /\ \E n \in NodeVals : CallAddNode(n)
AddArc == Idle /\ \E n1, n2 \in NodeVals, w \in WeightArgs : CallAddArc(n1, n2, w)
RemoveArc == Idle /\ \E n1, n2 \in NodeVals : CallRemoveArc(n1, n2)
AddEdge == Idle /\ \E n1, n2 \in NodeVals, w \in WeightArgs : CallAddEdge(n1, n2, w)
RemoveEdge == Idle /\ \E n1, n2 \in NodeVals : CallRemoveEdge(n1, n2)
Weight == Idle /\ \E n1, n2 \in NodeVals : CallWeight(n1, n2)

(***************************************************************************)
(* Dijkstra (main.ts:56-103).                                              *)
(***************************************************************************)
NoOptions == [given |-> FALSE, maxCumulWeight |-> 0]
Options(b) == [given |-> TRUE, maxCumulWeight |-> b]
OptionArgs == {NoOptions} \cup {Options(b) : b \in 0..MaxCumul}

null == 0
NoINode == [id |-> null, key |-> 0, value |-> undefined]

\* A comparison that holds of equal numbers too.
LessOrEqual(a, b) == a # NaN /\ b # NaN /\ a <= b

\* Comparisons and sums of numbers, NaN included.
Less(a, b) == a # NaN /\ b # NaN /\ a < b

Greater(a, b) == a # NaN /\ b # NaN /\ a > b
Plus(a, b) == IF a = NaN \/ b = NaN THEN NaN ELSE a + b

\* main.ts:66-71: the distances and predecessors before the loop.
initDist(a, src) ==
  [e \in {src} \cup {x \in nodes(a) : ~LooseEquals(x, src)} |->
     IF e = src THEN 0 ELSE Infinity]

initPrev(a) == [e \in nodes(a) |-> nullNode]

\* main.ts:61-71
CallDijkstra(src, tgt, opt) ==
  /\ s' = src
  /\ t' = tgt
  /\ O' = opt
  /\ dist' = initDist(adj, src)
  /\ prev' = initPrev(adj)
  /\ Q' = {[id |-> 1, key |-> 0, value |-> src]}
  /\ QMapping' = MapSet(EmptyMap, src, 1)
  /\ inserted' = 1
  /\ pc' = "while"
  /\ ret' = [kind |-> "pending"]
  /\ UNCHANGED <<graphVars, min>>

Dijkstra ==
  /\ Idle
  /\ \E src \in NodeVals, tgt \in NodeVals \cup {undefined}, opt \in OptionArgs :
       CallDijkstra(src, tgt, opt)

\* An extraction that takes any element of the heap.
extractAny(q) == q

\* Q.extractMinimum(): the INodes the heap may hand out, those of least key.
extractMinimum(q) == {m \in q : \A o \in q : m.key <= o.key}

\* main.ts:79
isTarget(tgt, m) == tgt # undefined /\ StrictEquals(m.value, tgt)

\* A cumulative weight that leaves out the distance of the extracted node.
altOfWeightOnly(G, m, v) == weight(G, m.value, v)

\* main.ts:85; the outcome of G.weight is a value or the error it throws.
altOf(G, m, v) ==
  LET w == weight(G, m.value, v)
  IN  IF w.kind = "throw" THEN w ELSE Value(m.value, v, Plus(m.key, w.value))

\* A bound that also cuts the paths whose cumulative weight equals it.
overMaxOrEqual(opt, alt) ==
  opt.given /\ (Greater(alt, opt.maxCumulWeight) \/ alt = opt.maxCumulWeight)

\* main.ts:87
overMax(opt, alt) == opt.given /\ Greater(alt, opt.maxCumulWeight)

\* A comparison that also takes a cumulative weight equal to the recorded one.
improvesOrEqual(d, v, alt) ==
  LET old == IF MapHas(d, v) THEN d[v] ELSE Infinity
  IN  Less(alt, old) \/ alt = old

\* main.ts:89
improves(d, v, alt) == Less(alt, IF MapHas(d, v) THEN d[v] ELSE Infinity)

\* A decreaseKey that leaves the heap as it is.
decreaseKeyLost(q, id, alt) == q

\* Q.decreaseKey(vINode, alt)
decreaseKey(q, id, alt) ==
  {IF n.id = id THEN [n EXCEPT !.key = alt] ELSE n : n \in q}

\* Q.insert(alt, v), the INode it makes being the one numbered id
insert(q, id, alt, v) == q \cup {[id |-> id, key |-> alt, value |-> v]}

\* The locals of Dijkstra that the for loop writes.
Locals == [dist |-> dist, prev |-> prev, Q |-> Q, QMapping |-> QMapping,
           inserted |-> inserted, thrown |-> This]

\* An extraction that leaves m in the heap.
extractedKept(L, m) == [L EXCEPT !.QMapping = MapSet(L.QMapping, m.value, null)]

\* main.ts:75-77: the locals once m has left the heap.
extracted(L, m) ==
  [L EXCEPT !.Q = L.Q \ {m}, !.QMapping = MapSet(L.QMapping, m.value, null)]

\* A body of the for loop that keeps the predecessor a node already has when
\* it lowers the node's key.
relaxToKeepPrev(opt, m, L, v, a) ==
  IF a.kind = "throw" THEN [L EXCEPT !.thrown = a]
  ELSE IF overMax(opt, a.value) THEN L
  ELSE IF improves(L.dist, v, a.value)
    THEN IF MapHas(L.QMapping, v) /\ L.QMapping[v] # null
           THEN [L EXCEPT !.dist = MapSet(L.dist, v, a.value),
                          !.Q = decreaseKey(L.Q, L.QMapping[v], a.value)]
           ELSE [L EXCEPT !.dist = MapSet(L.dist, v, a.value),
                          !.prev = MapSet(L.prev, v, m.value),
                          !.Q = insert(L.Q, L.inserted + 1, a.value, v),
                          !.QMapping = MapSet(L.QMapping, v, L.inserted + 1),
                          !.inserted = L.inserted + 1]
  ELSE L

\* A body of the for loop that records every cumulative weight within the
\* bound, lower than the recorded distance or not.
relaxToAlways(opt, m, L, v, a) ==
  IF a.kind = "throw" THEN [L EXCEPT !.thrown = a]
  ELSE IF overMax(opt, a.value) THEN L
  ELSE IF MapHas(L.QMapping, v) /\ L.QMapping[v] # null
    THEN [L EXCEPT !.dist = MapSet(L.dist, v, a.value),
                   !.prev = MapSet(L.prev, v, m.value),
                   !.Q = decreaseKey(L.Q, L.QMapping[v], a.value)]
    ELSE [L EXCEPT !.dist = MapSet(L.dist, v, a.value),
                   !.prev = MapSet(L.prev, v, m.value),
                   !.Q = insert(L.Q, L.inserted + 1, a.value, v),
                   !.QMapping = MapSet(L.QMapping, v, L.inserted + 1),
                   !.inserted = L.inserted + 1]

\* main.ts:85-96: the body of the for loop on the neighbour v of m.
relaxTo(opt, m, L, v, a) ==
  IF a.kind = "throw" THEN [L EXCEPT !.thrown = a]
  ELSE IF overMax(opt, a.value) THEN L
  ELSE IF improves(L.dist, v, a.value)
    THEN IF MapHas(L.QMapping, v) /\ L.QMapping[v] # null
           THEN [L EXCEPT !.dist = MapSet(L.dist, v, a.value),
                          !.prev = MapSet(L.prev, v, m.value),
                          !.Q = decreaseKey(L.Q, L.QMapping[v], a.value)]
           ELSE [L EXCEPT !.dist = MapSet(L.dist, v, a.value),
                          !.prev = MapSet(L.prev, v, m.value),
                          !.Q = insert(L.Q, L.inserted + 1, a.value, v),
                          !.QMapping = MapSet(L.QMapping, v, L.inserted + 1),
                          !.inserted = L.inserted + 1]
  ELSE L

relax(G, opt, m, L, v) == relaxTo(opt, m, L, v, altOf(G, m, v))

\* main.ts:82-97: the for loop over the neighbours left, in the order of the Set.
RECURSIVE forLoop(_, _, _, _, _)
forLoop(G, opt, m, L, left) ==
  IF left = <<>> \/ L.thrown.kind = "throw" THEN L
  ELSE forLoop(G, opt, m, relax(G, opt, m, L, Head(left)), Tail(left))

(***************************************************************************)
(* tracePath (main.ts:111-128).                                            *)
(***************************************************************************)
Diverges == <<[kind |-> "diverges", num |-> 0, str |-> <<>>]>>

\* main.ts:121-124; fuel bounds the turns of the loop, which never ends on
\* a cycle of predecessors.
RECURSIVE traceLoop(_, _, _, _)
traceLoop(p, e, path, fuel) ==
  IF e = nullNode THEN path
  ELSE IF fuel = 0 THEN Diverges
  ELSE traceLoop(p, IF MapHas(p, e) THEN p[e] ELSE nullNode, <<e>> \o path, fuel - 1)

\* A tracePath that walks back from every target.
tracedAlways(p, target, source) == TRUE

\* main.ts:118
traced(p, target, source) ==
  \/ ~MapHas(p, target) \/ p[target] # nullNode
  \/ ToBoolean(source) /\ StrictEquals(target, source)

tracePath(p, target, source) ==
  IF traced(p, target, source)
    THEN traceLoop(p, target, <<>>, Cardinality(DOMAIN p) + 2)
    ELSE <<>>

\* main.ts:100-102
result(tgt, src, d, p) ==
  IF tgt # undefined
    THEN [kind |-> "path", path |-> tracePath(p, tgt, src)]
    ELSE [kind |-> "maps", dist |-> d, prev |-> p]

\* main.ts:73-102: one turn of the while loop; the turn that finds the target
\* or leaves the heap empty goes on to the return statement.
Iterate ==
  /\ pc = "while"
  /\ Q # {}
  /\ \E m \in extractMinimum(Q) :
       \E L \in {IF isTarget(t, m) THEN extracted(Locals, m)
                 ELSE forLoop(TheGraph, O, m, extracted(Locals, m), neighbors(adj, m.value))} :
           /\ min' = m
           /\ dist' = L.dist
           /\ prev' = L.prev
           /\ Q' = L.Q
           /\ QMapping' = L.QMapping
           /\ inserted' = L.inserted
           /\ IF L.thrown.kind = "throw"
                THEN pc' = "done" /\ ret' = L.thrown
                ELSE IF isTarget(t, m) \/ L.Q = {}
                  THEN pc' = "done" /\ ret' = result(t, s, L.dist, L.prev)
                  ELSE pc' = "while" /\ ret' = ret
  /\ UNCHANGED <<graphVars, s, t, O>>

NoSearch ==
  /\ s = undefined
  /\ t = undefined
  /\ O = NoOptions
  /\ dist = EmptyMap
  /\ prev = EmptyMap
  /\ Q = {}
  /\ QMapping = EmptyMap
  /\ inserted = 0
  /\ min = NoINode

\* The caller goes on after a call has returned or thrown: the locals of the
\* search are gone.
Continue ==
  /\ pc \in {"returned", "done"}
  /\ pc' = "idle"
  /\ ret' = This
  /\ s' = undefined
  /\ t' = undefined
  /\ O' = NoOptions
  /\ dist' = EmptyMap
  /\ prev' = EmptyMap
  /\ Q' = {}
  /\ QMapping' = EmptyMap
  /\ inserted' = 0
  /\ min' = NoINode
  /\ UNCHANGED graphVars

Init ==
  /\ adj = EmptyMap
  /\ weights = EmptyMap
  /\ ret = This
  /\ pc = "idle"
  /\ NoSearch

Next ==
  \/ AddNode
  \/ AddArc
  \/ RemoveArc
  \/ AddEdge
  \/ RemoveEdge
  \/ Weight
  \/ Dijkstra
  \/ Iterate
  \/ Continue

\* The graph and every search over it.
Spec == Init /\ [][Next]_vars

GraphNext ==
  \/ AddNode
  \/ AddArc
  \/ RemoveArc
  \/ AddEdge
  \/ RemoveEdge
  \/ Weight
  \/ Continue

\* The graph alone: the calls on the WeightedGraph, no search.
GraphSpec == Init /\ [][GraphNext]_vars

(***************************************************************************)
(* What the properties speak of.                                           *)
(***************************************************************************)
Pairs == NodeVals \X NodeVals

\* Every arc of the graph has a weight, a number that is not negative.
WellWeighted ==
  \A p \in Pairs : arc(adj, p[1], p[2]) => weightsGet(TheGraph, p[1], p[2]) >= 0

\* The nodes a directed path leads to from the nodes of R.
RECURSIVE ReachFrom(_)
ReachFrom(R) ==
  LET R2 == R \cup {v \in NodeVals : \E u \in R : arc(adj, u, v)}
  IN  IF R2 = R THEN R ELSE ReachFrom(R2)

Reach(src) == ReachFrom({src})

Minimum(S) == CHOOSE x \in S : \A y \in S : x <= y

\* One round of relaxation of every arc, for the least cumulative weights.
Round(D) ==
  [v \in NodeVals |->
     Minimum({D[v]} \cup {D[u] + weightsGet(TheGraph, u, v) :
                            u \in {x \in NodeVals : arc(adj, x, v) /\ D[x] < Infinity}})]

RECURSIVE Rounds(_, _)
Rounds(D, k) == IF k = 0 THEN D ELSE Rounds(Round(D), k - 1)

\* The least cumulative weight of a directed path from src to each node,
\* Infinity where there is none.
TrueDist(src) ==
  Rounds([v \in NodeVals |-> IF v = src THEN 0 ELSE Infinity], Cardinality(NodeVals))

\* The sum of the weights along a sequence of nodes; NaN unless every
\* consecutive pair is an arc.
RECURSIVE PathWeight(_)
PathWeight(path) ==
  IF Len(path) <= 1 THEN 0
  ELSE IF ~arc(adj, path[1], path[2]) THEN NaN
  ELSE Plus(weightsGet(TheGraph, path[1], path[2]), PathWeight(Tail(path)))

FullSearch == pc = "done" /\ t = undefined /\ ret.kind = "maps"
PathSearch == pc = "done" /\ t # undefined /\ ret.kind = "path"

Finite(d, v) == MapHas(d, v) /\ d[v] < Infinity

(***************************************************************************)
(* C1.  The distance map of the full search Dijkstra(G, [s]), on a graph   *)
(* whose weights are not negative, gives every node of the graph the least *)
(* cumulative weight of a directed path from s to it, and Infinity to      *)
(* every node no directed path leads to.                                   *)
(***************************************************************************)
C1_FullSearchDistances ==
  (FullSearch /\ ~O.given /\ WellWeighted /\ s \in nodes(adj)) =>
    \A v \in nodes(adj) :
      MapHas(ret.dist, v) /\ ret.dist[v] = TrueDist(s)[v]

(***************************************************************************)
(* C2.  When no directed path leads from s to a target t other than s,     *)
(* Dijkstra(G, [s, t]) returns the empty sequence, whether t is a node of  *)
(* the graph or not.                                                       *)
(***************************************************************************)
C2_UnreachableIsEmpty ==
  (PathSearch /\ ~O.given /\ t # s /\ t \notin Reach(s)) => ret.path = <<>>

(***************************************************************************)
(* C3.  Dijkstra(G, [s, s]) returns the path [s], for every node value s,  *)
(* the number 0 included.                                                  *)
(***************************************************************************)
C3_SourceIsTarget ==
  (PathSearch /\ t = s) => ret.path = <<s>>

(***************************************************************************)
(* C4.  A path returned by Dijkstra(G, [s, t]) that is not empty starts at *)
(* s, ends at t, and goes from node to node along arcs of G, whether s and *)
(* t are nodes of the graph or not.                                        *)
(***************************************************************************)
C4_PathIsValid ==
  (PathSearch /\ ret.path # <<>>) =>
    /\ ret.path[1] = s
    /\ ret.path[Len(ret.path)] = t
    /\ \A i \in 1..(Len(ret.path) - 1) : arc(adj, ret.path[i], ret.path[i + 1])

(***************************************************************************)
(* C5.  On a graph whose weights are not negative, for a node t that a     *)
(* directed path leads to from s, the weights along the path returned by   *)
(* Dijkstra(G, [s, t]) add up to the distance the full search              *)
(* Dijkstra(G, [s]) records for t: both are the least cumulative weight of *)
(* a directed path from s to t.                                            *)
(***************************************************************************)
C5_PathWeightIsFullDistance ==
  (pc = "done" /\ ~O.given /\ WellWeighted) =>
    \A D \in {TrueDist(s)} :
      /\ (PathSearch /\ t \in Reach(s)) => PathWeight(ret.path) = D[t]
      /\ FullSearch =>
           \A v \in Reach(s) : MapHas(ret.dist, v) /\ ret.dist[v] = D[v]

\* The single-target search has left the loop at the target and returned a
\* path through a third node that is lighter than the arc from s to t: the
\* key of t in the heap was decreased on the way.
C5_Witness ==
  /\ PathSearch /\ ~O.given /\ WellWeighted
  /\ Len(ret.path) = 3
  /\ min.value = t
  /\ arc(adj, s, t)
  /\ PathWeight(ret.path) < weightsGet(TheGraph, s, t)

(***************************************************************************)
(* C6.  With the option maxCumulWeight = B, on a graph whose weights are   *)
(* not negative, for every node v of the graph other than the source: the  *)
(* full search records a finite distance for v if and only if the least    *)
(* cumulative weight of a path from the source to v is at most B, and the  *)
(* distance recorded is then that weight; the single-target search returns *)
(* a path that is not empty if and only if that weight is at most B.       *)
(***************************************************************************)
C6_MaxCumulWeight ==
  (pc = "done" /\ O.given /\ WellWeighted) =>
    \A D \in {TrueDist(s)} :
      /\ FullSearch =>
           \A v \in nodes(adj) \ {s} :
             /\ Finite(ret.dist, v) <=> D[v] <= O.maxCumulWeight
             /\ Finite(ret.dist, v) => ret.dist[v] = D[v]
      /\ (PathSearch /\ t \in nodes(adj) \ {s}) =>
           (ret.path # <<>> <=> D[t] <= O.maxCumulWeight)

\* A full search under a bound that has reached one node within the bound
\* and left out another that a path leads to, but none within the bound.
C6_Witness ==
  /\ FullSearch /\ O.given /\ WellWeighted
  /\ \E u, v \in nodes(adj) \ {s} :
       /\ Finite(ret.dist, u) /\ ret.dist[u] > 0
       /\ v \in Reach(s) /\ ret.dist[v] = Infinity
       /\ TrueDist(s)[v] > O.maxCumulWeight

(***************************************************************************)
(* C7.  After any calls of addNode, addArc, removeArc, addEdge and         *)
(* removeEdge on the empty WeightedGraph, the weight mapping has an entry  *)
(* for the pair (n1, n2) if and only if arc(n1, n2) holds.                 *)
(***************************************************************************)
C7_WeightsIffArcs ==
  \A p \in Pairs : MapHas(weights, weightKey(p[1], p[2])) <=> arc(adj, p[1], p[2])

(***************************************************************************)
(* C8.  addArc(n1, n2, w) and removeArc(n1, n2) change the arc and the     *)
(* weight of the pair (n1, n2) only: for every other pair (m1, m2),        *)
(* arc(m1, m2) and what weight(m1, m2) gives are the same after the call   *)
(* as before it.                                                           *)
(***************************************************************************)
C8_OtherPairsKept ==
  [][\A p \in Pairs :
       ((Idle /\ ((\E w \in WeightArgs : CallAddArc(p[1], p[2], w))
                   \/ CallRemoveArc(p[1], p[2])))) =>
         \A q \in Pairs \ {p} :
           /\ arc(adj', q[1], q[2]) = arc(adj, q[1], q[2])
           /\ weight([adj |-> adj', weights |-> weights'], q[1], q[2])
                = weight(TheGraph, q[1], q[2])]_vars

(***************************************************************************)
(* C9.  weight(n1, n2) throws whenever the arc (n1, n2) is not in the      *)
(* graph; it returns no value then, and the call leaves the adjacency      *)
(* structure and the weight mapping as they were.                          *)
(***************************************************************************)
C9_WeightThrows ==
  [][\A p \in Pairs :
       (Idle /\ CallWeight(p[1], p[2]) /\ ~arc(adj, p[1], p[2])) =>
         /\ ret'.kind = "throw"
         /\ adj' = adj
         /\ weights' = weights]_vars

\* weight has thrown for a pair whose reverse arc is in the graph and whose
\* key has an entry in the weight mapping.
C9_Witness ==
  /\ pc = "returned" /\ ret.kind = "throw"
  /\ ret.n1 # ret.n2
  /\ ~arc(adj, ret.n1, ret.n2)
  /\ arc(adj, ret.n2, ret.n1)
  /\ MapHas(weights, weightKey(ret.n1, ret.n2))

(***************************************************************************)
(* C10.  The maps the full search returns give the source s the distance 0 *)
(* and the predecessor nullNode, whether s is a node of the graph or not.  *)
(***************************************************************************)
C10_SourceEntries ==
  FullSearch =>
    /\ MapHas(ret.dist, s) /\ ret.dist[s] = 0
    /\ MapHas(ret.prev, s) /\ ret.prev[s] = nullNode

\* A search is under way or has just returned: the loop of main.ts:73-98 has
\* made zero or more turns.
Searching == pc \in {"while", "done"}

\* Every node whose predecessor is not the sentinel comes after it on an arc,
\* at the predecessor's distance plus the weight of the arc.
PredecessorsAgree(d, p) ==
  \A v \in DOMAIN p :
    p[v] # nullNode =>
      /\ arc(adj, p[v], v)
      /\ MapHas(d, v) /\ MapHas(d, p[v])
      /\ d[v] = Plus(d[p[v]], weightsGet(TheGraph, p[v], v))

(***************************************************************************)
(* C11.  On a graph whose weights are not negative, after every turn of    *)
(* the relaxation loop and in the maps the full search returns, every node *)
(* v whose predecessor is not the sentinel has (prev[v], v) an arc of the  *)
(* graph and dist[v] = dist[prev[v]] + weight(prev[v], v).                 *)
(***************************************************************************)
C11_PredecessorRelation ==
  (Searching /\ WellWeighted) =>
    /\ PredecessorsAgree(dist, prev)
    /\ FullSearch => PredecessorsAgree(ret.dist, ret.prev)

\* A full search has returned a node whose predecessor was replaced on the
\* way: it is an out-neighbour of the source, yet its predecessor is another
\* node.
C11_Witness ==
  /\ FullSearch /\ WellWeighted
  /\ \E v \in DOMAIN ret.prev :
       /\ arc(adj, s, v)
       /\ ret.prev[v] \notin {nullNode, s}
       /\ ret.dist[v] < weightsGet(TheGraph, s, v)

\* The weight a call stores for the argument w: 0 when w is left out.
Given(w) == IF w = NoWeight THEN 0 ELSE w

(***************************************************************************)
(* C12.  After addEdge(n1, n2, w) both arc(n1, n2) and arc(n2, n1) hold    *)
(* and weight(n1, n2) = weight(n2, n1) = w, with w = 0 when the weight is  *)
(* left out; after addArc(n1, n2) without a weight, weight(n1, n2) = 0;    *)
(* after removeEdge(n1, n2) neither arc and neither weight entry exists.   *)
(* Stated of the graph each call makes of every graph the caller can have  *)
(* built.                                                                  *)
(***************************************************************************)
C12_EdgeIsBothArcs ==
  Idle =>
    \A p \in Pairs :
      /\ \A w \in WeightArgs :
           \A g \in {addEdge(TheGraph, p[1], p[2], w)} :
             /\ weight(g, p[1], p[2]) = Value(p[1], p[2], Given(w))
             /\ weight(g, p[2], p[1]) = Value(p[2], p[1], Given(w))
      /\ \A g \in {addArc(TheGraph, p[1], p[2], NoWeight)} :
           weight(g, p[1], p[2]) = Value(p[1], p[2], 0)
      /\ \A g \in {removeEdge(TheGraph, p[1], p[2])} :
           /\ ~arc(g.adj, p[1], p[2]) /\ ~arc(g.adj, p[2], p[1])
           /\ ~MapHas(g.weights, weightKey(p[1], p[2]))
           /\ ~MapHas(g.weights, weightKey(p[2], p[1]))

\* The graph holds an edge between two nodes with a weight above the
\* default, the same in both directions, as addEdge leaves it.
C12_Witness ==
  \E p \in Pairs :
    /\ p[1] # p[2]
    /\ arc(adj, p[1], p[2]) /\ arc(adj, p[2], p[1])
    /\ weightsGet(TheGraph, p[1], p[2]) > 0
    /\ weightsGet(TheGraph, p[1], p[2]) = weightsGet(TheGraph, p[2], p[1])
    /\ NumArcs(adj) = 2

\* The out-neighbours of n as a set.
neighborSet(a, n) == {neighbors(a, n)[i] : i \in 1..Len(neighbors(a, n))}

(***************************************************************************)
(* C13.  After any calls of addNode, addArc, addEdge, removeArc and        *)
(* removeEdge on the empty graph, every out-neighbour of a node is a       *)
(* registered node, a key of the adjacency map: the nodes of the graph     *)
(* hold both endpoints of every arc.                                       *)
(***************************************************************************)
C13_EndpointsRegistered ==
  /\ \A n \in nodes(adj) : neighborSet(adj, n) \subseteq nodes(adj)
  /\ \A p \in Pairs : arc(adj, p[1], p[2]) => {p[1], p[2]} \subseteq nodes(adj)

\* The graph is one arc between two nodes, and its second endpoint, which
\* has no out-neighbour, is a registered node.
C13_Witness ==
  \E p \in Pairs :
    /\ p[1] # p[2]
    /\ arc(adj, p[1], p[2])
    /\ neighbors(adj, p[2]) = <<>>
    /\ NumArcs(adj) = 1
    /\ nodes(adj) = {p[1], p[2]}

\* The nodes the heap holds.
Queued(q) == {n.value : n \in q}

\* The nodes extracted so far: their entry of the handle table is null.
Finalized(qm) == {v \in DOMAIN qm : qm[v] = null}

(***************************************************************************)
(* C14.  During a search on a graph whose weights are not negative, a turn *)
(* of the loop extracts a node that was not extracted before, and leaves   *)
(* every node extracted so far (the one it extracts included) with its     *)
(* recorded distance, with a null handle and out of the heap: a node is    *)
(* extracted at most once in a search.                                     *)
(***************************************************************************)
C14_ExtractedIsFinal ==
  [][(pc = "while" /\ WellWeighted) =>
       /\ min'.value \notin Finalized(QMapping)
       /\ \A v \in Finalized(QMapping) \cup {min'.value} :
            /\ MapHas(dist, v) /\ MapHas(dist', v) /\ dist'[v] = dist[v]
            /\ v \in Finalized(QMapping')
            /\ v \notin Queued(Q')]_vars

\* The loop has gone through the neighbours of the node it extracted last,
\* and one of them is another node that was extracted before.
C14_Witness ==
  /\ Searching /\ WellWeighted
  /\ min # NoINode /\ ~isTarget(t, min)
  /\ \E v \in Finalized(QMapping) :
       /\ v # min.value
       /\ arc(adj, min.value, v)

\* dist.get(v) ?? Infinity (main.ts:89)
distOr(d, v) == IF MapHas(d, v) THEN d[v] ELSE Infinity

(***************************************************************************)
(* C15.  Throughout a search the recorded distance of a node never         *)
(* increases: a turn of the loop keeps every entry of the distance map,    *)
(* and every entry it writes is a number strictly below the one recorded   *)
(* before, an unset distance counting as Infinity.                         *)
(***************************************************************************)
C15_DistancesDecrease ==
  [][pc = "while" =>
       /\ DOMAIN dist \subseteq DOMAIN dist'
       /\ \A v \in DOMAIN dist' :
            \/ MapHas(dist, v) /\ dist'[v] = dist[v]
            \/ dist'[v] >= 0 /\ dist'[v] < distOr(dist, v)]_vars

\* The loop has written the distance of a node of the graph that had none:
\* a node loosely equal to the source, which the initialisation passes over.
C15_Witness ==
  /\ Searching
  /\ \E v \in nodes(adj) :
       /\ v # s /\ LooseEquals(v, s)
       /\ MapHas(dist, v) /\ dist[v] < Infinity
       /\ MapHas(prev, v) /\ prev[v] # nullNode

\* main.ts:73-79: what a turn of the loop does to the program counter and to
\* min: it extracts an element of the heap, then loops or leaves the loop.
\* The steps of Next that do so are the steps of Iterate, and a turn can be
\* made exactly when the loop is running (its heap is not empty then).
Turn == pc = "while" /\ \E m \in Q : min' = m /\ pc' \in {"while", "done"}

\* A call of Dijkstra runs to its return without yielding: a turn of the
\* loop that can be made is made.
Fairness == WF_<<pc, min>>(Turn)

\* The graph and every search over it, each search running on.
LiveSpec == Spec /\ Fairness

\* Dijkstra has returned a value: the two maps or a path.
Returned ==
  /\ pc = "done"
  /\ \/ ret.kind = "maps"
     \/ ret.kind = "path" /\ ret.path # Diverges

(***************************************************************************)
(* C16.  Every search on a graph whose weights are not negative ends: each *)
(* turn of the loop extracts one node, a node of the graph or the source,  *)
(* that no turn extracted before, and the search goes on to return a       *)
(* result.                                                                 *)
(***************************************************************************)
C16_SearchTerminates ==
  /\ [](pc = "while" => Q # {})
  /\ [][(pc = "while" /\ WellWeighted) =>
          /\ min'.value \in (nodes(adj) \cup {s}) \ Finalized(QMapping)
          /\ Finalized(QMapping') = Finalized(QMapping) \cup {min'.value}]_vars
  /\ (pc = "while" /\ WellWeighted) ~> Returned

\* A full search has returned after extracting every node of a graph of
\* three nodes.
C16_Witness ==
  /\ Returned /\ WellWeighted /\ FullSearch
  /\ Cardinality(nodes(adj)) = 3
  /\ Finalized(QMapping) = nodes(adj)

\* The nodes whose entry of the handle table is a live handle.
Live(qm) == {v \in DOMAIN qm : qm[v] # null}

(***************************************************************************)
(* C17.  At the start of every turn of the relaxation loop, the nodes the  *)
(* heap holds are the nodes whose entry of the handle table is a live      *)
(* handle; each of them is in the heap once, under that handle, and its    *)
(* key is its recorded distance.                                           *)
(***************************************************************************)
C17_QueueIsLiveHandles ==
  pc = "while" =>
    /\ Queued(Q) = Live(QMapping)
    /\ \A a, b \in Q : a.value = b.value => a = b
    /\ \A n \in Q :
         /\ QMapping[n.value] = n.id
         /\ MapHas(dist, n.value) /\ n.key = dist[n.value]

\* A turn is about to start, after the turn of another node than the source,
\* with a node in the heap whose key that turn decreased: an out-neighbour
\* of the source whose predecessor is no longer the source.
C17_Witness ==
  /\ pc = "while"
  /\ Finalized(QMapping) # {}
  /\ \E n \in Q :
       /\ arc(adj, s, n.value)
       /\ prev[n.value] # s
       /\ n.key < weightsGet(TheGraph, s, n.value)

(***************************************************************************)
(* C18.  In a search on a graph whose weights are not negative, the key of *)
(* the element a turn extracts is not below the key of the element the     *)
(* turn before extracted, and it is the least cumulative weight of a path  *)
(* from the source to the extracted node, with or without the option       *)
(* maxCumulWeight.                                                         *)
(***************************************************************************)
C18_ExtractedKeysAscend ==
  [][(pc = "while" /\ WellWeighted) =>
       /\ min # NoINode => min'.key >= min.key
       /\ min'.key = TrueDist(s)[min'.value]]_vars

\* Three turns have extracted three nodes under three different keys.
C18_Witness ==
  /\ Searching /\ WellWeighted
  /\ min # NoINode
  /\ \E v \in Finalized(QMapping) \ {s, min.value} :
       /\ 0 < dist[v]
       /\ dist[v] < min.key

\* The nodes of a sequence are all different.
NoRepeat(path) == \A i, j \in 1..Len(path) : path[i] = path[j] => i = j

(***************************************************************************)
(* C19.  The predecessor map of a search on a graph whose weights are not  *)
(* negative (weights of zero, cycles of weight zero and self-loops         *)
(* included) has no cycle, after every turn of the loop: from every node   *)
(* of the map the predecessors lead to the sentinel within as many steps   *)
(* as the graph has nodes, and tracePath, for every target, ends and       *)
(* gives no node twice.                                                    *)
(***************************************************************************)
C19_PredecessorsAcyclic ==
  (Searching /\ WellWeighted) =>
    /\ \A v \in DOMAIN prev :
         traceLoop(prev, v, <<>>, Cardinality(nodes(adj))) # Diverges
    /\ \A v \in NodeVals :
         \A path \in {tracePath(prev, v, s)} :
           path # Diverges /\ NoRepeat(path)

\* The search has recorded a chain of two predecessors along arcs of weight
\* zero that lie on a cycle of weight zero, in a graph with a self-loop of
\* weight zero at the source.
C19_Witness ==
  /\ Searching /\ WellWeighted
  /\ arc(adj, s, s) /\ weightsGet(TheGraph, s, s) = 0
  /\ \E v \in DOMAIN prev :
       /\ prev[v] \notin {nullNode, s}
       /\ prev[prev[v]] = s
       /\ arc(adj, prev[v], s)
       /\ weightsGet(TheGraph, prev[v], s) = 0
       /\ dist[v] = 0

(***************************************************************************)
(* tracePath called on its own (main.ts:111-128), by a caller that holds   *)
(* the predecessor map a full search returned.                             *)
(***************************************************************************)
\* The source argument of tracePath: a node, or undefined when left out.
SourceArgs == NodeVals \cup {undefined}

Traced(p, target, source) ==
  [kind |-> "traced", path |-> tracePath(p, target, source),
   prev |-> p, target |-> target, source |-> source]

CallTracePath(target, source) ==
  /\ ret' = Traced(ret.prev, target, source)
  /\ pc' = "returned"
  /\ UNCHANGED <<graphVars, searchVars>>

TracePath ==
  /\ FullSearch
  /\ \E target \in NodeVals, source \in SourceArgs : CallTracePath(target, source)

\* A call of the full search, Dijkstra(G, [s]) or Dijkstra(G, [s], O).
FullDijkstra ==
  /\ Idle
  /\ \E src \in NodeVals, opt \in OptionArgs : CallDijkstra(src, undefined, opt)

TraceNext ==
  \/ AddNode
  \/ AddArc
  \/ RemoveArc
  \/ AddEdge
  \/ RemoveEdge
  \/ FullDijkstra
  \/ Iterate
  \/ TracePath
  \/ Continue

\* The graph, the full searches over it and the paths traced in their
\* predecessor maps.
TraceSpec == Init /\ [][TraceNext]_vars

\* tracePath has returned for a target whose recorded predecessor is the
\* sentinel.
TracedSentinel ==
  /\ pc = "returned" /\ ret.kind = "traced"
  /\ MapHas(ret.prev, ret.target) /\ ret.prev[ret.target] = nullNode

(***************************************************************************)
(* C20.  tracePath(prev, target), called on its own on the predecessor map *)
(* of a search with the source argument left out, returns the empty        *)
(* sequence for every target whose recorded predecessor is the sentinel,   *)
(* the source of that search included; for such a target it returns        *)
(* a sequence that is not empty, which is then [source], only when the     *)
(* source argument is given.                                               *)
(***************************************************************************)
C20_TraceWithoutSource ==
  TracedSentinel =>
    /\ ret.source = undefined => ret.path = <<>>
    /\ ret.path # <<>> =>
         /\ ret.source # undefined
         /\ ret.target = ret.source
         /\ ret.path = <<ret.source>>

\* tracePath, the source argument left out, has returned the empty sequence
\* for the source of a search that reached another node; the source is a
\* node of the graph, so its recorded predecessor is the sentinel.
C20_Witness ==
  /\ TracedSentinel
  /\ ret.source = undefined
  /\ ret.target = s
  /\ ret.path = <<>>
  /\ \E v \in DOMAIN ret.prev : ret.prev[v] = s

=============================================================================
